---- MODULE Spec2Model ----
(***************************************************************************)
(* grimoire_elk/enriched/utils.py: the repository filter builder           *)
(* (get_repository_filter) and the incremental watermark resolver          *)
(* (get_last_enrich, get_min_last_enrich).                                 *)
(*                                                                         *)
(* Python values are records tagged by "kind".  A str is a sequence of     *)
(* text chunks (see Chunks); a dict is a record tagged by "shape".         *)
(***************************************************************************)
EXTENDS Integers, Sequences, FiniteSets, TLC

VARIABLES pc, perceval_backend, perceval_backend_name, term,
          backend_cmd, enrich_backend, ret, calls

vars == <<pc, perceval_backend, perceval_backend_name, term,
          backend_cmd, enrich_backend, ret, calls>>

---------------------------------------------------------------------------
(* Bounds *)

\* timestamps are whole days 0..MaxT counted from 1970-01-01 00:00
MaxT == 2
\* integer offsets are 0..MaxOffset
MaxOffset == 1
\* a str has at most MaxStrLen chunks
MaxStrLen == 2

---------------------------------------------------------------------------
(* Python values *)

None == [kind |-> "None"]
\* the attribute does not exist on the object (reading it raises AttributeError)
Missing == [kind |-> "missing"]
AttributeError == [kind |-> "AttributeError"]
JSONDecodeError == [kind |-> "JSONDecodeError"]

int(n) == [kind |-> "int", n |-> n]
datetime(t, tz) == [kind |-> "datetime", t |-> t, tzinfo |-> tz]

\* tzinfo: None ("naive") or UTC ("utc"); timestamps of the pipeline are UTC
TzInfos == {"naive", "utc"}
Datetimes == {datetime(t, tz) : t \in 0..MaxT, tz \in TzInfos}
NaiveDatetimes == {datetime(t, "naive") : t \in 0..MaxT}
Ints == {int(n) : n \in 0..MaxOffset}

\* parser.parse("1970-01-01"): a naive datetime
EPOCH == datetime(0, "naive")

\* datetime.replace(tzinfo=None): same wall clock, tzinfo dropped
replace_tzinfo_none(dt) == [dt EXCEPT !.tzinfo = "naive"]

\* bool(x) for the values the resolver tests: None is falsy, a datetime is
\* always truthy, an int is truthy unless 0
truthy(x) ==
    \/ x.kind = "datetime"
    \/ (x.kind = "int" /\ x.n # 0)
    \/ x.kind = "object"

---------------------------------------------------------------------------
(* str: sequences of chunks.  A chunk is a literal piece of text; the two  *)
(* one-character chunks QUOTE and BSLASH are the characters JSON treats    *)
(* specially inside a string literal.                                      *)

QUOTE == "\""
BSLASH == "\\"
SLASH == "/"
Chunks == {"https://github.com/", "https://meetup.com/", SLASH, QUOTE, BSLASH}

RECURSIVE StrsOfLen(_)
StrsOfLen(n) ==
    IF n = 0 THEN {<<>>}
    ELSE {<<c>> \o s : c \in Chunks, s \in StrsOfLen(n - 1)}

Strs == UNION {StrsOfLen(n) : n \in 0..MaxStrLen}

\* from .github import GITHUB
GITHUB == <<"https://github.com/">>
MEETUP_ROOT == <<"https://meetup.com/">>

---------------------------------------------------------------------------
(* get_repository_filter *)

\* the dict {} (no scoping: read the whole index)
EmptyFilter == [kind |-> "dict", shape |-> "empty"]
\* the dict {"name": field, "value": value}
FlatFilter(field, value) ==
    [kind |-> "dict", shape |-> "flat", name |-> field, value |-> value]
\* the dict {"term": {field: value}}
TermFilter(field, value) ==
    [kind |-> "dict", shape |-> "term", field |-> field, value |-> value]

\* json.loads on the characters between the quotes of a JSON string literal:
\* an unescaped quote ends the literal early (what follows is then no JSON),
\* a backslash must start one of the escapes \" \\ \/ (the other chunks
\* start with 'h', which is no escape letter), and a backslash in last place
\* escapes the closing quote of the template.
RECURSIVE json_string_valid(_)
json_string_valid(s) ==
    IF s = <<>> THEN TRUE
    ELSE IF s[1] = QUOTE THEN FALSE
    ELSE IF s[1] = BSLASH
         THEN /\ Len(s) >= 2
              /\ s[2] \in {QUOTE, BSLASH, SLASH}
              /\ json_string_valid(SubSeq(s, 3, Len(s)))
    ELSE json_string_valid(Tail(s))

RECURSIVE json_string_value(_)
json_string_value(s) ==
    IF s = <<>> THEN <<>>
    ELSE IF s[1] = BSLASH
         THEN <<s[2]>> \o json_string_value(SubSeq(s, 3, Len(s)))
    ELSE <<s[1]>> \o json_string_value(Tail(s))

\* json.loads('{"term": { "%s" : "%s"  }}' % (field, value)); field is
\* 'origin' or 'tag', which JSON reads back unchanged
json_loads_term(field, value) ==
    IF json_string_valid(value)
    THEN TermFilter(field, json_string_value(value))
    ELSE JSONDecodeError

TagBackends == {"meetup", "nntp", "stackexchange", "jira"}

\* the values that stand for a whole multi-origin index
WholeIndexValues == {<<>>, GITHUB \o <<SLASH>>, MEETUP_ROOT}

filter_field(perceval_backend_name_) ==
    IF perceval_backend_name_ \in TagBackends THEN "tag" ELSE "origin"

filter_value(perceval_backend_, perceval_backend_name_) ==
    IF perceval_backend_name_ \in TagBackends
    THEN perceval_backend_.tag
    ELSE perceval_backend_.origin

build_filter(field, value, term_) ==
    IF ~term_ THEN FlatFilter(field, value) ELSE json_loads_term(field, value)

\* the returned dict, or JSONDecodeError when json.loads raises
get_repository_filter(perceval_backend_, perceval_backend_name_, term_) ==
    IF ~truthy(perceval_backend_) THEN EmptyFilter
    ELSE LET field == filter_field(perceval_backend_name_)
             value == filter_value(perceval_backend_, perceval_backend_name_)
             filter_ == build_filter(field, value, term_)
         IN IF filter_ = JSONDecodeError THEN JSONDecodeError
            ELSE IF value \in WholeIndexValues THEN EmptyFilter
            ELSE filter_

---------------------------------------------------------------------------
(* The enrichment target: its connector name, its baseline from_date and   *)
(* the answers of its store to the three queries the resolver can make.    *)

\* enrich_backend.get_last_update_from_es(filters): what the store answers
\* to the query the run makes (no argument is filters = <<>>)
get_last_update_from_es(enrich_backend_, filters) ==
    enrich_backend_.last_update

\* enrich_backend.get_last_offset_from_es(filters)
get_last_offset_from_es(enrich_backend_, filters) ==
    enrich_backend_.last_offset

\* the outcome of a run of the resolver: what it returns (or the exception
\* it raises) and the store queries it made, in order
Outcome(value, queries) == [ret |-> value, calls |-> queries]

Query(method, filters, response) ==
    [method |-> method, filters |-> filters, response |-> response]

---------------------------------------------------------------------------
(* get_last_enrich *)

\* mutant: the legacy location is tried first
read_from_date_legacy_first(backend_cmd_, signature) ==
    IF "from_date" \notin signature THEN None
    ELSE IF backend_cmd_.parsed_args.from_date # Missing
         THEN backend_cmd_.parsed_args.from_date
    ELSE IF backend_cmd_.from_date # Missing THEN backend_cmd_.from_date
    ELSE AttributeError

\* from_date = None; if 'from_date' in signature.parameters: try/except
read_from_date(backend_cmd_, signature) ==
    IF "from_date" \notin signature THEN None
    ELSE IF backend_cmd_.from_date # Missing THEN backend_cmd_.from_date
    ELSE IF backend_cmd_.parsed_args.from_date # Missing
         THEN backend_cmd_.parsed_args.from_date
    ELSE AttributeError

\* offset = None; if 'offset' in signature.parameters: try/except
read_offset(backend_cmd_, signature) ==
    IF "offset" \notin signature THEN None
    ELSE IF backend_cmd_.offset # Missing THEN backend_cmd_.offset
    ELSE IF backend_cmd_.parsed_args.offset # Missing
         THEN backend_cmd_.parsed_args.offset
    ELSE AttributeError

\* min(a, b) on two naive datetimes: b when b < a, else a
datetime_min(a, b) == IF b.t < a.t THEN b ELSE a

\* mutant: the later of the two is kept
get_min_last_enrich_latest(last_enrich, last_enrich_filtered) ==
    IF truthy(last_enrich_filtered)
    THEN IF last_enrich_filtered.t > last_enrich.t
         THEN replace_tzinfo_none(last_enrich_filtered)
         ELSE last_enrich
    ELSE last_enrich

get_min_last_enrich(last_enrich, last_enrich_filtered) ==
    IF truthy(last_enrich_filtered)
    THEN datetime_min(last_enrich, replace_tzinfo_none(last_enrich_filtered))
    ELSE last_enrich

\* from_date.replace(tzinfo=None) != parser.parse("1970-01-01")
is_explicit_from_date(from_date) ==
    replace_tzinfo_none(from_date) # EPOCH

\* mutant: the empty-index test is left out and the store is asked anyway
from_date_branch_no_empty_test(from_date, enrich_backend_, filter_) ==
    IF is_explicit_from_date(from_date) THEN Outcome(from_date, <<>>)
    ELSE LET last_enrich_filtered == get_last_update_from_es(enrich_backend_, <<filter_>>)
         IN Outcome(IF truthy(enrich_backend_.from_date)
                    THEN get_min_last_enrich(enrich_backend_.from_date, last_enrich_filtered)
                    ELSE last_enrich_filtered,
                    <<Query("get_last_update_from_es", <<filter_>>, last_enrich_filtered)>>)

\* if from_date: ...
from_date_branch(from_date, enrich_backend_, filter_) ==
    IF is_explicit_from_date(from_date) THEN Outcome(from_date, <<>>)
    ELSE IF ~truthy(enrich_backend_.from_date) THEN Outcome(None, <<>>)
    ELSE LET last_enrich_filtered == get_last_update_from_es(enrich_backend_, <<filter_>>)
         IN Outcome(get_min_last_enrich(enrich_backend_.from_date, last_enrich_filtered),
                    <<Query("get_last_update_from_es", <<filter_>>, last_enrich_filtered)>>)

\* mutant: the store is asked whatever the offset is
offset_branch_always_query(offset, enrich_backend_, filter_) ==
    LET last_offset == get_last_offset_from_es(enrich_backend_, <<filter_>>)
    IN Outcome(last_offset,
               <<Query("get_last_offset_from_es", <<filter_>>, last_offset)>>)

\* elif offset is not None: ...
offset_branch(offset, enrich_backend_, filter_) ==
    IF offset # int(0) THEN Outcome(offset, <<>>)
    ELSE LET last_offset == get_last_offset_from_es(enrich_backend_, <<filter_>>)
         IN Outcome(last_offset,
                    <<Query("get_last_offset_from_es", <<filter_>>, last_offset)>>)

\* mutant: the filtered last update is returned without the minimum
else_branch_no_min(enrich_backend_, filter_) ==
    IF ~truthy(enrich_backend_.from_date) THEN Outcome(None, <<>>)
    ELSE LET last_enrich_filtered == get_last_update_from_es(enrich_backend_, <<filter_>>)
         IN Outcome(last_enrich_filtered,
                    <<Query("get_last_update_from_es", <<filter_>>, last_enrich_filtered)>>)

\* else: ...
else_branch(enrich_backend_, filter_) ==
    IF ~truthy(enrich_backend_.from_date) THEN Outcome(None, <<>>)
    ELSE LET last_enrich_filtered == get_last_update_from_es(enrich_backend_, <<filter_>>)
         IN Outcome(get_min_last_enrich(enrich_backend_.from_date, last_enrich_filtered),
                    <<Query("get_last_update_from_es", <<filter_>>, last_enrich_filtered)>>)

\* mutant: the minimum with the baseline is taken here too
no_backend_cmd_branch_min(enrich_backend_) ==
    LET last_update == get_last_update_from_es(enrich_backend_, <<>>)
    IN Outcome(IF truthy(enrich_backend_.from_date)
               THEN get_min_last_enrich(enrich_backend_.from_date, last_update)
               ELSE last_update,
               <<Query("get_last_update_from_es", <<>>, last_update)>>)

\* else: last_enrich = enrich_backend.get_last_update_from_es()
no_backend_cmd_branch(enrich_backend_) ==
    LET last_update == get_last_update_from_es(enrich_backend_, <<>>)
    IN Outcome(last_update, <<Query("get_last_update_from_es", <<>>, last_update)>>)

\* mutant: the offset is looked at before the from_date
select_branch_offset_first(from_date, offset, enrich_backend_, filter_) ==
    IF offset # None THEN offset_branch(offset, enrich_backend_, filter_)
    ELSE IF truthy(from_date) THEN from_date_branch(from_date, enrich_backend_, filter_)
    ELSE else_branch(enrich_backend_, filter_)

select_branch(from_date, offset, enrich_backend_, filter_) ==
    IF truthy(from_date) THEN from_date_branch(from_date, enrich_backend_, filter_)
    ELSE IF offset # None THEN offset_branch(offset, enrich_backend_, filter_)
    ELSE else_branch(enrich_backend_, filter_)

get_last_enrich(backend_cmd_, enrich_backend_) ==
    IF ~truthy(backend_cmd_) THEN no_backend_cmd_branch(enrich_backend_)
    ELSE LET backend == backend_cmd_.backend
             backend_name == enrich_backend_.connector_name
             filter_ == get_repository_filter(backend, backend_name, FALSE)
         IN \* backend.fetch on None raises AttributeError
            IF backend = None THEN Outcome(AttributeError, <<>>)
            ELSE LET signature == backend.fetch_parameters
                     from_date == read_from_date(backend_cmd_, signature)
                     offset == read_offset(backend_cmd_, signature)
                 IN IF from_date = AttributeError \/ offset = AttributeError
                    THEN Outcome(AttributeError, <<>>)
                    ELSE select_branch(from_date, offset, enrich_backend_, filter_)

---------------------------------------------------------------------------
(* Inputs *)

BackendNames == TagBackends \cup {"git"}

\* a connector as the filter builder sees it (it reads origin and tag only)
Connectors == [kind : {"object"}, origin : Strs, tag : Strs]

\* a connector as the resolver sees it: origin, tag and the parameters its
\* fetch declares
FetchParameters == SUBSET {"from_date", "offset"}
RepositoryIds ==
    { <<GITHUB, MEETUP_ROOT>>, <<GITHUB \o <<SLASH>>, <<SLASH>>>> }
FetchConnectors ==
    { [kind |-> "object", origin |-> id[1], tag |-> id[2], fetch_parameters |-> ps] :
        id \in RepositoryIds, ps \in FetchParameters }

\* a command descriptor: the connector, the direct fields from_date and
\* offset, and the legacy parsed_args fields; each field may not exist
FromDates == {Missing, None} \cup Datetimes
Offsets == {Missing, None} \cup Ints
LegacyFromDates == {Missing, datetime(0, "utc"), datetime(MaxT, "naive")}
LegacyOffsets == {Missing, int(0), int(MaxOffset)}
BackendCommands ==
    [kind : {"object"},
     backend : FetchConnectors \cup {None},
     from_date : FromDates,
     offset : Offsets,
     parsed_args : [from_date : LegacyFromDates, offset : LegacyOffsets]]

\* the enrichment target: connector name and baseline from_date: None while
\* nothing has been enriched, else a naive datetime (get_min_last_enrich
\* takes min() of it and a datetime whose tzinfo it has just dropped)
EnrichNames == {"git", "jira"}
Baselines == {None} \cup NaiveDatetimes
EnrichBackends == [kind : {"object"}, connector_name : EnrichNames, from_date : Baselines]

\* what the store can answer
LastUpdates == {None} \cup Datetimes
LastOffsets == {None} \cup Ints

WithStore(enrich_backend_, last_update, last_offset) ==
    [kind |-> "object",
     connector_name |-> enrich_backend_.connector_name,
     from_date |-> enrich_backend_.from_date,
     last_update |-> last_update,
     last_offset |-> last_offset]

---------------------------------------------------------------------------
(* The calls.  utils.py keeps no state between calls: a call takes its     *)
(* arguments, runs to its return (or exception) and Return forgets it.     *)

Init ==
    /\ pc = "idle"
    /\ perceval_backend = None
    /\ perceval_backend_name = None
    /\ term = None
    /\ backend_cmd = None
    /\ enrich_backend = None
    /\ ret = None
    /\ calls = <<>>

GetRepositoryFilter ==
    /\ pc = "idle"
    /\ \E b \in Connectors \cup {None}, name \in BackendNames, t \in BOOLEAN :
        /\ perceval_backend' = b
        /\ perceval_backend_name' = name
        /\ term' = t
        /\ ret' = get_repository_filter(b, name, t)
    /\ pc' = "get_repository_filter"
    /\ UNCHANGED <<backend_cmd, enrich_backend, calls>>

GetLastEnrich ==
    /\ pc = "idle"
    /\ \E cmd \in BackendCommands \cup {None}, eb \in EnrichBackends,
          last_update \in LastUpdates, last_offset \in LastOffsets :
        LET out == get_last_enrich(cmd, WithStore(eb, last_update, last_offset))
        IN /\ backend_cmd' = cmd
           /\ enrich_backend' = eb
           /\ ret' = out.ret
           /\ calls' = out.calls
    /\ pc' = "get_last_enrich"
    /\ UNCHANGED <<perceval_backend, perceval_backend_name, term>>

Return ==
    /\ pc # "idle"
    /\ pc' = "idle"
    /\ perceval_backend' = None
    /\ perceval_backend_name' = None
    /\ term' = None
    /\ backend_cmd' = None
    /\ enrich_backend' = None
    /\ ret' = None
    /\ calls' = <<>>

Next == GetRepositoryFilter \/ GetLastEnrich \/ Return

Spec == Init /\ [][Next]_vars

---------------------------------------------------------------------------
(* Vocabulary of the properties *)

Resolved == pc = "get_last_enrich"
Filtered == pc = "get_repository_filter"

\* the resolver ran with a descriptor that has a connector
HasConnector ==
    /\ Resolved
    /\ backend_cmd # None
    /\ backend_cmd.backend # None

Declares(p) == p \in backend_cmd.backend.fetch_parameters

\* the descriptor's from_date / offset: the direct field when it exists,
\* else the legacy parsed_args field (Missing when neither exists)
DescriptorFromDate ==
    IF backend_cmd.from_date # Missing
    THEN backend_cmd.from_date
    ELSE backend_cmd.parsed_args.from_date

DescriptorOffset ==
    IF backend_cmd.offset # Missing
    THEN backend_cmd.offset
    ELSE backend_cmd.parsed_args.offset

\* every field the connector's fetch asks for exists on the descriptor
WellFormed ==
    /\ Declares("from_date") => DescriptorFromDate # Missing
    /\ Declares("offset") => DescriptorOffset # Missing

\* the descriptor's from_date is the epoch sentinel 1970-01-01
SentinelFromDate ==
    /\ DescriptorFromDate.kind = "datetime"
    /\ DescriptorFromDate.t = 0

ExplicitFromDate ==
    /\ DescriptorFromDate.kind = "datetime"
    /\ DescriptorFromDate.t # 0

\* the flat filter that scopes a query to the descriptor's repository
ScopedTo(connector, name) ==
    LET field == IF name \in {"meetup", "nntp", "stackexchange", "jira"}
                 THEN "tag" ELSE "origin"
        value == IF field = "tag" THEN connector.tag ELSE connector.origin
    IN IF value \in {<<>>, <<"https://github.com/", "/">>, <<"https://meetup.com/">>}
       THEN EmptyFilter
       ELSE FlatFilter(field, value)

RepositoryScope == ScopedTo(backend_cmd.backend, enrich_backend.connector_name)

\* the run asked the store exactly once: `method`, filtered to the repository
AskedFiltered(method) ==
    /\ Len(calls) = 1
    /\ calls[1].method = method
    /\ calls[1].filters = <<RepositoryScope>>

\* ret is the earlier of the baseline and the store's answer (the baseline
\* when the store has no answer), as a naive timestamp
IsEarlierOf(value, baseline, answer) ==
    /\ value.kind = "datetime"
    /\ value.tzinfo = "naive"
    /\ value.t = IF answer = None \/ baseline.t <= answer.t THEN baseline.t ELSE answer.t

\* the enrichment target with the store answering as it did in this run
Replay ==
    WithStore(enrich_backend,
              IF calls # <<>> /\ calls[1].method = "get_last_update_from_es"
              THEN calls[1].response ELSE None,
              IF calls # <<>> /\ calls[1].method = "get_last_offset_from_es"
              THEN calls[1].response ELSE None)

---------------------------------------------------------------------------
(* Properties *)

\* C1: without a command descriptor the resolver asks the store once for the
\* last update, with no filter, and returns the answer as it is (None
\* included), whatever the baseline from_date of the target.
C1_NoDescriptorUnfiltered ==
    (Resolved /\ backend_cmd = None) =>
        calls = <<Query("get_last_update_from_es", <<>>, ret)>>

C1_Witness ==
    /\ Resolved
    /\ backend_cmd = None
    /\ enrich_backend.from_date = datetime(0, "naive")
    /\ ret = datetime(MaxT, "utc")

\* C2: when fetch declares from_date and the descriptor's from_date is not
\* 1970-01-01, that from_date is returned unchanged, whatever the baseline,
\* the store and the descriptor's offset.
C2_ExplicitFromDateWins ==
    (HasConnector /\ Declares("from_date") /\ WellFormed /\ ExplicitFromDate) =>
        ret = DescriptorFromDate

C2_Witness ==
    /\ HasConnector
    /\ backend_cmd.backend.fetch_parameters = {"from_date", "offset"}
    /\ backend_cmd.from_date = datetime(1, "utc")
    /\ backend_cmd.offset = int(1)
    /\ enrich_backend.from_date = datetime(0, "naive")
    /\ ret = datetime(1, "utc")

\* C3: with the sentinel from_date and a baseline, the store is asked for the
\* last update filtered to the repository and the earlier of the baseline
\* and the answer is returned (the baseline when there is no answer).
C3_MinOfBaselineAndFiltered ==
    (/\ HasConnector /\ Declares("from_date") /\ WellFormed /\ SentinelFromDate
     /\ enrich_backend.from_date # None) =>
        /\ AskedFiltered("get_last_update_from_es")
        /\ IsEarlierOf(ret, enrich_backend.from_date, calls[1].response)

C3_Witness ==
    /\ HasConnector /\ Declares("from_date") /\ WellFormed /\ SentinelFromDate
    /\ enrich_backend.from_date = datetime(MaxT, "naive")
    /\ calls # <<>>
    /\ calls[1].response = datetime(1, "utc")
    /\ ret = datetime(1, "naive")

\* C4: with the sentinel from_date and no baseline, None is returned and the
\* store is not asked.
C4_NoBaselineGivesNone ==
    (/\ HasConnector /\ Declares("from_date") /\ WellFormed /\ SentinelFromDate
     /\ enrich_backend.from_date = None) =>
        /\ ret = None
        /\ calls = <<>>

C4_Witness ==
    /\ HasConnector /\ Declares("from_date") /\ WellFormed /\ SentinelFromDate
    /\ enrich_backend.from_date = None
    /\ ret = None

\* C5 as stated: whenever fetch declares offset, a nonzero offset is returned
\* unchanged and offset 0 gives the answer of the last-offset query filtered
\* to the repository, whatever the descriptor's from_date.
C5_OffsetAlwaysDecides ==
    (HasConnector /\ Declares("offset") /\ WellFormed /\ DescriptorOffset.kind = "int") =>
        IF DescriptorOffset # int(0)
        THEN ret = DescriptorOffset
        ELSE /\ AskedFiltered("get_last_offset_from_es")
             /\ ret = calls[1].response

\* C5 amended: the same, when no from_date is taken from the descriptor
\* (fetch does not declare from_date, or the descriptor's from_date is None).
C5_OffsetDecidesWithoutFromDate ==
    (/\ HasConnector /\ Declares("offset") /\ WellFormed /\ DescriptorOffset.kind = "int"
     /\ (Declares("from_date") => DescriptorFromDate = None)) =>
        IF DescriptorOffset # int(0)
        THEN ret = DescriptorOffset
        ELSE /\ AskedFiltered("get_last_offset_from_es")
             /\ ret = calls[1].response

C5_Witness ==
    /\ HasConnector
    /\ backend_cmd.backend.fetch_parameters = {"from_date", "offset"}
    /\ backend_cmd.from_date = None
    /\ backend_cmd.offset = int(0)
    /\ enrich_backend.from_date = datetime(1, "naive")
    /\ calls # <<>>
    /\ ret = int(1)

\* C6: a connector whose fetch declares offset only never gets a timestamp,
\* and one whose fetch declares from_date only never gets an integer offset.
C6_WatermarkTypeFixed ==
    (HasConnector /\ WellFormed) =>
        /\ backend_cmd.backend.fetch_parameters = {"offset"} => ret.kind # "datetime"
        /\ backend_cmd.backend.fetch_parameters = {"from_date"} => ret.kind # "int"

\* C7: for a connector whose selected value is no whole-index value, the
\* filter is on 'tag' with connector.tag for meetup, nntp, stackexchange and
\* jira and on 'origin' with connector.origin otherwise, and the flat and the
\* term shape carry that same field and value.
C7_FieldAndValueInBothShapes ==
    (Filtered /\ perceval_backend # None) =>
        LET byTag == perceval_backend_name \in {"meetup", "nntp", "stackexchange", "jira"}
            field == IF byTag THEN "tag" ELSE "origin"
            value == IF byTag THEN perceval_backend.tag ELSE perceval_backend.origin
        IN value \notin {<<>>, <<"https://github.com/", "/">>, <<"https://meetup.com/">>} =>
              ret = IF term THEN TermFilter(field, value) ELSE FlatFilter(field, value)

\* C8: the empty filter is returned when the connector is absent or its
\* selected value is "", GITHUB + '/' or 'https://meetup.com/', in both
\* shapes, and a non-empty filter is returned in every other case.
C8_EmptyExactlyForWholeIndex ==
    Filtered =>
        LET byTag == perceval_backend_name \in {"meetup", "nntp", "stackexchange", "jira"}
            whole == \/ perceval_backend = None
                     \/ (IF byTag THEN perceval_backend.tag ELSE perceval_backend.origin)
                            \in {<<>>, <<"https://github.com/", "/">>, <<"https://meetup.com/">>}
        IN IF whole THEN ret = EmptyFilter ELSE ret.kind = "dict" /\ ret # EmptyFilter

\* C9: when fetch declares neither from_date nor offset, the run is the run
\* of a from_date connector given the sentinel from_date: None without a
\* baseline, else the earlier of the baseline and the filtered last update.
C9_NeitherIsSentinelCase ==
    (HasConnector /\ backend_cmd.backend.fetch_parameters = {}) =>
        /\ Outcome(ret, calls) =
              get_last_enrich([backend_cmd EXCEPT !.backend.fetch_parameters = {"from_date"},
                                                  !.from_date = datetime(0, "utc")],
                              Replay)
        /\ IF enrich_backend.from_date = None
           THEN ret = None /\ calls = <<>>
           ELSE /\ AskedFiltered("get_last_update_from_es")
                /\ IsEarlierOf(ret, enrich_backend.from_date, calls[1].response)

C9_Witness ==
    /\ HasConnector
    /\ backend_cmd.backend.fetch_parameters = {}
    /\ backend_cmd.from_date = datetime(MaxT, "utc")
    /\ enrich_backend.from_date = datetime(MaxT, "naive")
    /\ calls # <<>>
    /\ calls[1].response = datetime(0, "utc")
    /\ ret = datetime(0, "naive")

\* C10: from_date and offset are taken from the direct field when it exists
\* and from parsed_args only when it does not: the run is the run of the
\* descriptor that carries the same values in its direct fields and has no
\* parsed_args values at all.
Direct(cmd) ==
    [cmd EXCEPT !.from_date = IF cmd.from_date # Missing
                              THEN cmd.from_date ELSE cmd.parsed_args.from_date,
                !.offset = IF cmd.offset # Missing
                           THEN cmd.offset ELSE cmd.parsed_args.offset,
                !.parsed_args = [from_date |-> Missing, offset |-> Missing]]

C10_LegacyOnlyWhenDirectMissing ==
    HasConnector =>
        Outcome(ret, calls) = get_last_enrich(Direct(backend_cmd), Replay)

C10_Witness ==
    /\ HasConnector
    /\ Declares("from_date")
    /\ backend_cmd.from_date = Missing
    /\ backend_cmd.parsed_args.from_date = datetime(MaxT, "naive")
    /\ ret = datetime(MaxT, "naive")

====
